---- MODULE Spec2Model ----
(***************************************************************************)
(* Model of the billiards simulation core in src/game_cpp/game.cpp.        *)
(*                                                                         *)
(* Numbers.  The program computes in float (IEEE 754 binary32, round to    *)
(* nearest even, as compiled for x86-64) and so does the model.  A float   *)
(* is held as an integer: its 31 low bits (exponent field * 2^23 +         *)
(* fraction) with its sign.  That integer grows with the float, so <, <=   *)
(* and = on floats are <, <= and = on the integers, -f is the negation and *)
(* Abs(f) the absolute value.  FAdd, FSub, FMul, FDiv and FSqrt give the   *)
(* correctly rounded result of the float operation, bit for bit.  sqrt in  *)
(* the source is the double overload: where its result is stored in a      *)
(* float or returned as one this is FSqrt, and where a float is divided by *)
(* it (vectorProjecction) the quotient is taken in double, FDivSqrtD.      *)
(* Flt(n, d) is the float nearest to n / d, the value of a decimal         *)
(* literal: Flt(3, 10) is 0.3f.  Inf and -Inf are the infinities, which    *)
(* take their place in that order.  NaN is the one value for every NaN     *)
(* (the program never reads a NaN's sign or payload): an operation on it   *)
(* gives NaN, and FLess and FLessEq, the comparisons of the program, are   *)
(* false on it.  Zero is held without a sign: the program divides only by  *)
(* square roots and by chargeTime, which are never -0, and reads no sign   *)
(* of a zero elsewhere.  A vector of length zero has no direction: the     *)
(* program divides 0 by 0 there and goes on with NaN.                      *)
(***************************************************************************)
EXTENDS Integers, Sequences, FiniteSets

(* ---------------------------------------------------------------------- *)
(* float arithmetic                                                        *)
(* ---------------------------------------------------------------------- *)

Abs(a) == IF a < 0 THEN -a ELSE a

Max(a, b) == IF a > b THEN a ELSE b

(* the infinity and the NaN of the format *)
Inf == 2139095040
NaN == 2143289344

Signed(neg, a) == IF neg THEN -a ELSE a

(* -a *)
FNeg(a) == IF a = NaN THEN NaN ELSE -a

(* a < b and a <= b: false when either is NaN *)
FLess(a, b) == a # NaN /\ b # NaN /\ a < b

FLessEq(a, b) == a # NaN /\ b # NaN /\ a <= b

Pow2 == << 1, 2, 4, 8, 16, 32, 64, 128, 256, 512, 1024, 2048, 4096, 8192, 16384,
           32768, 65536, 131072, 262144, 524288, 1048576, 2097152, 4194304,
           8388608, 16777216, 33554432, 67108864, 134217728, 268435456,
           536870912, 1073741824 >>

(* 2^k, 0 <= k <= 30 *)
P2(k) == Pow2[k + 1]

RECURSIVE BitSearch(_, _, _)
(* the k of lo .. hi with m < 2^k, and 2^(k - 1) <= m unless k = lo *)
BitSearch(m, lo, hi) ==
    IF lo = hi THEN lo
    ELSE IF m < P2((lo + hi) \div 2) THEN BitSearch(m, lo, (lo + hi) \div 2)
    ELSE BitSearch(m, (lo + hi) \div 2 + 1, hi)

(* the number of bits of m, 1 <= m < 2^31 *)
BitLen(m) == BitSearch(m, 1, 31)

(* the fraction and exponent fields of a float *)
Frac(f) == Abs(f) % 8388608
BExp(f) == Abs(f) \div 8388608

(* |f| = Mant(f) * 2^Expo(f), with Mant(f) in 2^23 .. 2^24 - 1 for f # 0 *)
Mant(f) == IF BExp(f) > 0 THEN 8388608 + Frac(f)
           ELSE Frac(f) * P2(24 - BitLen(Frac(f)))
Expo(f) == IF BExp(f) > 0 THEN BExp(f) - 150
           ELSE -149 - (24 - BitLen(Frac(f)))

(* the bits of the float with exponent field be and significand q, plus   *)
(* one unit in the last place when the dropped part rem is above half, or  *)
(* is half and the significand is odd or st holds                          *)
PackRounded(neg, be, q, rem, half, st, sh) ==
    (IF neg THEN -1 ELSE 1)
    * ((IF be >= 1 THEN (be - 1) * 8388608 ELSE 0) + q
       + (IF sh <= 0 \/ sh > 31 THEN 0
          ELSE IF rem > half \/ (rem = half /\ (st \/ q % 2 = 1)) THEN 1 ELSE 0))

(* m with its last sh bits dropped; above the largest exponent field the   *)
(* result is an infinity                                                   *)
PackShifted(neg, be, m, st, sh) ==
    IF be >= 255 THEN Signed(neg, Inf)
    ELSE
    PackRounded(neg, be,
                IF sh <= 0 THEN m * P2(-sh) ELSE IF sh > 30 THEN 0 ELSE m \div P2(sh),
                IF sh <= 0 THEN 0 ELSE IF sh > 30 THEN m ELSE m % P2(sh),
                IF sh <= 0 THEN 1 ELSE IF sh > 30 THEN 1073741824 ELSE P2(sh - 1),
                st, sh)

(* m of L bits keeps 24 of them, fewer below the smallest normal exponent *)
PackBits(neg, e, m, st, L) ==
    PackShifted(neg, e + L + 126, m, st, Max(L - 24, -149 - e))

(* the float nearest to +-(m + s) * 2^e, ties to even; m >= 1, and st says *)
(* that a fraction 0 < s < 1 was dropped below m                           *)
Pack(neg, e, m, st) == PackBits(neg, e, m, st, BitLen(m))

(* the product of two 24-bit significands as << high 24 bits + carries,   *)
(* low 24 bits >>, from their 12-bit halves                                *)
MulLow(ah, al, bh, bl, mid, low) ==
    << ah * bh + mid \div 4096 + low \div 16777216, low % 16777216 >>

MulMid(ah, al, bh, bl, mid) ==
    MulLow(ah, al, bh, bl, mid, (mid % 4096) * 4096 + al * bl)

MulHalves(ah, al, bh, bl) == MulMid(ah, al, bh, bl, ah * bl + al * bh)

MulMant(ma, mb) == MulHalves(ma \div 4096, ma % 4096, mb \div 4096, mb % 4096)

MulPack(neg, e, P) ==
    Pack(neg, e, P[1] * 64 + P[2] \div 262144, P[2] % 262144 # 0)

(* a * b *)
FMul(a, b) ==
    IF a = NaN \/ b = NaN THEN NaN
    ELSE IF Abs(a) = Inf \/ Abs(b) = Inf
         THEN (IF a = 0 \/ b = 0 THEN NaN ELSE Signed((a < 0) # (b < 0), Inf))
    ELSE IF a = 0 \/ b = 0 THEN 0
    ELSE MulPack((a < 0) # (b < 0), Expo(a) + Expo(b) + 18, MulMant(Mant(a), Mant(b)))

(* big + sml from the significands mx and my aligned at the exponent of   *)
(* big less 6; st says that bits of sml were dropped below my              *)
AddAligned(big, sml, mx, my, st) ==
    IF (big < 0) = (sml < 0)
    THEN Pack(big < 0, Expo(big) - 6, mx + my, st)
    ELSE IF mx = my /\ ~st THEN 0
    ELSE Pack(big < 0, Expo(big) - 6, IF st THEN mx - my - 1 ELSE mx - my, st)

(* big + sml, where sml lies d binary places below big *)
AddShifted(big, sml, d) ==
    AddAligned(big, sml, Mant(big) * 64,
               IF d <= 6 THEN Mant(sml) * P2(6 - d)
               ELSE IF d >= 30 THEN 0 ELSE Mant(sml) \div P2(d - 6),
               IF d <= 6 THEN FALSE
               ELSE IF d >= 30 THEN TRUE ELSE Mant(sml) % P2(d - 6) # 0)

(* big + sml, |big| >= |sml| > 0 *)
AddOrdered(big, sml) == AddShifted(big, sml, Expo(big) - Expo(sml))

(* a + b *)
FAdd(a, b) ==
    IF a = NaN \/ b = NaN THEN NaN
    ELSE IF Abs(a) = Inf THEN (IF b = -a THEN NaN ELSE a)
    ELSE IF Abs(b) = Inf THEN b
    ELSE IF a = 0 THEN b
    ELSE IF b = 0 THEN a
    ELSE IF Abs(a) >= Abs(b) THEN AddOrdered(a, b) ELSE AddOrdered(b, a)

(* a - b *)
FSub(a, b) == FAdd(a, FNeg(b))

RECURSIVE DivBits(_, _, _, _)
(* k more groups of 7 bits of the quotient r / d: << quotient, remainder >> *)
DivBits(q, r, d, k) ==
    IF k = 0 THEN << q, r >>
    ELSE DivBits(q * 128 + (r * 128) \div d, (r * 128) % d, d, k - 1)

DivPack(neg, e, qr) == Pack(neg, e, qr[1], qr[2] # 0)

DivMant(neg, e, ma, mb) == DivPack(neg, e, DivBits(ma \div mb, ma % mb, mb, 4))

(* a / b *)
FDiv(a, b) ==
    IF a = NaN \/ b = NaN THEN NaN
    ELSE IF Abs(a) = Inf
         THEN (IF Abs(b) = Inf THEN NaN ELSE Signed((a < 0) # (b < 0), Inf))
    ELSE IF Abs(b) = Inf THEN 0
    ELSE IF b = 0 THEN (IF a = 0 THEN NaN ELSE Signed(a < 0, Inf))
    ELSE IF a = 0 THEN 0
    ELSE DivMant((a < 0) # (b < 0), Expo(a) - Expo(b) - 28, Mant(a), Mant(b))

RECURSIVE RootFloor(_, _)
(* the largest r with r * r <= n, from an estimate x >= r (Newton's steps) *)
RootFloor(n, x) ==
    LET y == (x + n \div x) \div 2
    IN  IF y >= x THEN x ELSE RootFloor(n, y)

(* r0 * 2^13 + t squared is within m2 * 2^26, where c = (m2 - r0^2) * 2^12 *)
RootFits(r0, c, t) == (t * t + 16383) \div 16384 <= c - r0 * t

(* the float of exponent e2 / 2 - 13 and significand r0 * 2^13 + t *)
RootPack(e2, r0, c, t) ==
    Pack(FALSE, e2 \div 2 - 13, r0 * 8192 + t,
         ~((t * t) % 16384 = 0 /\ (t * t) \div 16384 = c - r0 * t))

(* t is the largest 13 bits that keep the square within m2 * 2^26, which   *)
(* is 0 to 2 below the estimate t0                                         *)
RootDigits(e2, r0, c, t0) ==
    RootPack(e2, r0, c, IF RootFits(r0, c, t0) THEN t0
                        ELSE IF RootFits(r0, c, t0 - 1) THEN t0 - 1 ELSE t0 - 2)

RootEstimate(e2, r0, c) ==
    RootDigits(e2, r0, c, IF c \div r0 > 8191 THEN 8191 ELSE c \div r0)

RootFrom(m2, e2, r0) == RootEstimate(e2, r0, (m2 - r0 * r0) * 4096)

(* the root of m2 * 2^e2, e2 even: the root of m2 * 2^26 is r0 * 2^13 + t, *)
(* r0 the root of m2                                                       *)
RootOf(m2, e2) == RootFrom(m2, e2, RootFloor(m2, 5793))

(* (float)sqrt(a) *)
FSqrt(a) ==
    IF a = NaN \/ a < 0 THEN NaN
    ELSE IF a = Inf THEN Inf
    ELSE IF a = 0 THEN 0
    ELSE IF Expo(a) % 2 # 0 THEN RootOf(Mant(a) * 2, Expo(a) - 1)
    ELSE RootOf(Mant(a), Expo(a))

(* naturals below 2^59 for the double precision steps:                     *)
(* << hi, lo >> is hi * 2^28 + lo, lo < 2^28                               *)
PGeq(p, q) == p[1] > q[1] \/ (p[1] = q[1] /\ p[2] >= q[2])

PSub(p, q) == IF p[2] >= q[2] THEN << p[1] - q[1], p[2] - q[2] >>
              ELSE << p[1] - q[1] - 1, p[2] + 268435456 - q[2] >>

(* p * 2^k + d *)
PShl(p, k, d) == << p[1] * P2(k) + (p[2] * P2(k) + d) \div 268435456,
                    (p[2] * P2(k) + d) % 268435456 >>

(* p / 2^sh to the nearest integer, ties to even; st as in Pack *)
PRound(p, sh, st) ==
    LET qlo == ((p[1] % P2(sh)) * 268435456 + p[2]) \div P2(sh)
        rem == p[2] % P2(sh)
        up  == rem > P2(sh - 1) \/ (rem = P2(sh - 1) /\ (st \/ qlo % 2 = 1))
    IN  IF ~up THEN << p[1] \div P2(sh), qlo >>
        ELSE IF qlo + 1 = 268435456 THEN << p[1] \div P2(sh) + 1, 0 >>
        ELSE << p[1] \div P2(sh), qlo + 1 >>

RECURSIVE PRootBits(_, _, _, _, _)
(* the bits k, k - 1, .. stop + 1 of the square root of n * 2^84 *)
PRootBits(root, rem, n, k, stop) ==
    IF k = stop THEN << root, rem >>
    ELSE LET r4 == PShl(rem, 2, IF k > 42 THEN (n \div P2(2 * (k - 43))) % 4 ELSE 0)
             t  == PShl(root, 2, 1)
         IN  IF PGeq(r4, t)
             THEN PRootBits(PShl(root, 1, 1), PSub(r4, t), n, k - 1, stop)
             ELSE PRootBits(PShl(root, 1, 0), r4, n, k - 1, stop)

RECURSIVE PDivBits(_, _, _, _)
(* k more bits of the quotient r / d: << quotient, remainder * 2^k >> *)
PDivBits(q, r, d, k) ==
    IF k = 0 THEN << q, r >>
    ELSE IF PGeq(r, d)
         THEN PDivBits(PShl(q, 1, 1), PShl(PSub(r, d), 1, 0), d, k - 1)
         ELSE PDivBits(PShl(q, 1, 0), PShl(r, 1, 0), d, k - 1)

(* further bits of a root or a quotient, from the pair p a run returned    *)
PRootMore(p, n, k, stop) == PRootBits(p[1], p[2], n, k, stop)

PDivMore(p, d, k) == PDivBits(p[1], p[2], d, k)

(* << root, remainder >> of the 56-bit square root of n * 2^84 *)
DRoot(n) ==
    PRootMore(PRootMore(PRootMore(PRootMore(
        PRootBits(<< 0, 0 >>, << 0, 0 >>, n, 55, 44),
        n, 44, 33), n, 33, 22), n, 22, 11), n, 11, 0)

(* << quotient, remainder >> of 56 bits of m * 2 / d *)
DQuot(m, d) ==
    PDivMore(PDivMore(PDivMore(
        PDivBits(<< 0, 0 >>, << m * 2, 0 >>, d, 14), d, 14), d, 14), d, 14)

(* the quotient qq of a by a double of exponent eD, rounded to 53 bits and *)
(* then to 24                                                               *)
DRoundQuot(a, eD, qq, qsh) ==
    LET Q == PRound(qq[1], qsh, qq[2] # << 0, 0 >>)
    IN  Pack(a < 0, Expo(a) - 59 - eD + qsh,
             Q[1] * 8 + Q[2] \div 33554432, Q[2] % 33554432 # 0)

DQuotRounded(a, eD, qq) ==
    DRoundQuot(a, eD, qq, IF qq[1][1] >= 134217728 THEN 3 ELSE 2)

(* a divided by the root rr of exponent e2 / 2, rounded to 53 bits *)
DDivRoot(a, e2, rr, rsh) ==
    DQuotRounded(a, e2 \div 2 - 42 + rsh,
                 DQuot(Mant(a), PRound(rr[1], rsh, rr[2] # << 0, 0 >>)))

DDivRootOf(a, e2, rr) ==
    DDivRoot(a, e2, rr, IF rr[1][1] >= 67108864 THEN 2 ELSE 1)

(* (float)((double)a / sqrt((double)b)): the square root and the quotient  *)
(* are rounded to 53 bits, then the quotient to 24                         *)
FDivSqrtD(a, b) ==
    IF a = NaN \/ b = NaN \/ b < 0 THEN NaN
    ELSE IF b = Inf THEN (IF Abs(a) = Inf THEN NaN ELSE 0)
    ELSE IF b = 0 THEN (IF a = 0 THEN NaN ELSE Signed(a < 0, Inf))
    ELSE IF Abs(a) = Inf THEN a
    ELSE IF a = 0 THEN 0
    ELSE IF Expo(b) % 2 # 0
         THEN DDivRootOf(a, Expo(b) - 1, DRoot(Mant(b) * 2))
         ELSE DDivRootOf(a, Expo(b), DRoot(Mant(b)))

RECURSIVE FltBits(_, _, _, _)
(* bits of the quotient r / d until q has 28: << q, remainder, bits added >> *)
FltBits(q, r, d, k) ==
    IF q >= 134217728 THEN << q, r, k >>
    ELSE FltBits(2 * q + (2 * r) \div d, (2 * r) % d, d, k + 1)

(* the float nearest to n / d, for integers n and 0 < d < 2^24 *)
Flt(n, d) ==
    IF n = 0 THEN 0
    ELSE LET s == FltBits(Abs(n) \div d, Abs(n) % d, d, 0)
         IN  Pack(n < 0, -s[3], s[1], s[2] # 0)

Zero == Flt(0, 1)
Half == Flt(5, 10)
One == Flt(1, 1)
Two == Flt(2, 1)

(* ---------------------------------------------------------------------- *)
(* Vector2 and the game parameters                                         *)
(* ---------------------------------------------------------------------- *)

Vector2(vx, vy) == [x |-> vx, y |-> vy]

(* sqrt(v.x * v.x + v.y * v.y) stored to a float *)
vectorLength(v) == FSqrt(FAdd(FMul(v.x, v.x), FMul(v.y, v.y)))

dividedBy(v, length) == Vector2(FDiv(v.x, length), FDiv(v.y, length))

normalizedVector(v) == dividedBy(v, vectorLength(v))

(* Params::Table, Params::Physics, Params::Ball, Params::Shot *)
width == Flt(15, 1)
height == Flt(8, 1)
pocketRadius == Flt(4, 10)
frictionDeceleration == Flt(3, 1000)
strikePower == Flt(1, 1)
radius == Flt(3, 10)
chargeTime == Flt(1, 1)

NumBalls == 7
NumPockets == 6
Slots == 0 .. (NumBalls - 1)
NULL == -1

(* 0.5f * width and 0.5f * height *)
HalfWidth == FMul(Half, width)
HalfHeight == FMul(Half, height)

pocketsPositions ==
    << Vector2(FMul(-Half, width), FMul(-Half, height)),
       Vector2(Zero, FMul(-Half, height)),
       Vector2(FMul(Half, width), FMul(-Half, height)),
       Vector2(FMul(-Half, width), FMul(Half, height)),
       Vector2(Zero, FMul(Half, height)),
       Vector2(FMul(Half, width), FMul(Half, height)) >>

ballsPositions ==
    << Vector2(FMul(Flt(-3, 10), width), Zero),
       Vector2(FMul(Flt(2, 10), width), Zero),
       Vector2(FMul(Flt(25, 100), width), FMul(Flt(5, 100), height)),
       Vector2(FMul(Flt(25, 100), width), FMul(Flt(-5, 100), height)),
       Vector2(FMul(Flt(3, 10), width), FMul(Flt(1, 10), height)),
       Vector2(FMul(Flt(3, 10), width), Zero),
       Vector2(FMul(Flt(3, 10), width), FMul(Flt(-1, 10), height)) >>

(* ---------------------------------------------------------------------- *)
(* BillBall                                                                *)
(* ---------------------------------------------------------------------- *)

BillBall(ballPosition) == [position |-> ballPosition, speed |-> Vector2(Zero, Zero)]

getNextPosition(b) ==
    Vector2(FAdd(b.position.x, b.speed.x), FAdd(b.position.y, b.speed.y))

setPosition(b, newPosition) == [b EXCEPT !.position = newPosition]

setSpeed(b, newSpeed) == [b EXCEPT !.speed = newSpeed]

(* strike that sets the velocity instead of adding to it *)
strikeOverwrite(b, direction, power) ==
    setSpeed(b, Vector2(FMul(normalizedVector(direction).x, power),
                        FMul(normalizedVector(direction).y, power)))

strike(b, direction, power) ==
    setSpeed(b, Vector2(FAdd(b.speed.x, FMul(normalizedVector(direction).x, power)),
                        FAdd(b.speed.y, FMul(normalizedVector(direction).y, power))))

(* ---------------------------------------------------------------------- *)
(* PhysicEvents                                                            *)
(* ---------------------------------------------------------------------- *)

(* t.x = t.x * pr; t.y = t.y * pr *)
scaledBy(t, pr) == Vector2(FMul(t.x, pr), FMul(t.y, pr))

vectorProjecction(a, b) ==
    scaledBy(normalizedVector(b),
             FDivSqrtD(FAdd(FMul(a.x, b.x), FMul(a.y, b.y)),
                       FAdd(FMul(b.x, b.x), FMul(b.y, b.y))))

(* the four tests of ricochet, in the order of the code: each reads the    *)
(* ball's current position, and each correction is computed from the x and *)
(* y read on entry                                                         *)
ricochetRight(b, x, y) ==
    IF FLess(HalfWidth, FAdd(x, radius))
    THEN [position |-> Vector2(FSub(x, FMul(FSub(FAdd(x, radius), HalfWidth), Two)), y),
          speed    |-> Vector2(FNeg(b.speed.x), b.speed.y)]
    ELSE b

ricochetLeft(b, x, y) ==
    IF FLess(FSub(b.position.x, radius), -HalfWidth)
    THEN [position |-> Vector2(FAdd(x, FMul(FAdd(FSub(-HalfWidth, x), radius), Two)), y),
          speed    |-> Vector2(FNeg(b.speed.x), b.speed.y)]
    ELSE b

ricochetTop(b, x, y) ==
    IF FLess(HalfHeight, FAdd(b.position.y, radius))
    THEN [position |-> Vector2(x, FSub(y, FMul(FSub(FAdd(y, radius), HalfHeight), Two))),
          speed    |-> Vector2(b.speed.x, FNeg(b.speed.y))]
    ELSE b

ricochetBottom(b, x, y) ==
    IF FLess(FSub(b.position.y, radius), -HalfHeight)
    THEN [position |-> Vector2(x, FAdd(y, FMul(FAdd(FSub(-HalfHeight, y), radius), Two))),
          speed    |-> Vector2(b.speed.x, FNeg(b.speed.y))]
    ELSE b

ricochetFrom(curBall, x, y) ==
    ricochetBottom(ricochetTop(ricochetLeft(ricochetRight(curBall, x, y), x, y), x, y), x, y)

ricochet(curBall) == ricochetFrom(curBall, curBall.position.x, curBall.position.y)

guideVector(ball1, ball2) ==
    Vector2(FSub(ball2.position.x, ball1.position.x),
            FSub(ball2.position.y, ball1.position.y))

(* collide with g2 added to the second ball instead of subtracted *)
exchangeSignSlip(ball1, ball2, g1, g2) ==
    << setSpeed(ball1, Vector2(FAdd(FSub(ball1.speed.x, g1.x), g2.x),
                               FAdd(FSub(ball1.speed.y, g1.y), g2.y))),
       setSpeed(ball2, Vector2(FAdd(FAdd(ball2.speed.x, g1.x), g2.x),
                               FAdd(FAdd(ball2.speed.y, g1.y), g2.y))) >>

collideSignSlip(ball1, ball2) ==
    exchangeSignSlip(ball1, ball2,
                     vectorProjecction(ball1.speed, guideVector(ball1, ball2)),
                     vectorProjecction(ball2.speed, guideVector(ball1, ball2)))

(* newSpeed1 and newSpeed2 from the projections g1 and g2 *)
exchange(ball1, ball2, g1, g2) ==
    << setSpeed(ball1, Vector2(FAdd(FSub(ball1.speed.x, g1.x), g2.x),
                               FAdd(FSub(ball1.speed.y, g1.y), g2.y))),
       setSpeed(ball2, Vector2(FSub(FAdd(ball2.speed.x, g1.x), g2.x),
                               FSub(FAdd(ball2.speed.y, g1.y), g2.y))) >>

(* the pair of balls after collide(ball1, ball2) *)
collide(ball1, ball2) ==
    exchange(ball1, ball2,
             vectorProjecction(ball1.speed, guideVector(ball1, ball2)),
             vectorProjecction(ball2.speed, guideVector(ball1, ball2)))

(* ---------------------------------------------------------------------- *)
(* Game                                                                    *)
(* ---------------------------------------------------------------------- *)

distance(v1, v2) == vectorLength(Vector2(FSub(v1.x, v2.x), FSub(v1.y, v2.y)))

VARIABLES
    billBalls,           \* table.billBalls: slot -> ball object, or NULL
    heap,                \* the BillBall objects made by the last Table::init
    ballToHit,           \* table.ballToHit: a ball object, or NULL
    pockets,             \* table.pockets: TRUE where a pocket mesh is held
    isChargingShot,
    shotChargeProgress,
    destroyCount,        \* Scene::destroyMesh calls received by each ball's mesh
    status,              \* "running", "aborted" (assert) or "crashed" (null pointer)
    lastOp,              \* the call that produced this state
    callArgs,            \* its arguments: (dt, 0) of update, (x, y) of a release
    prev,                \* the program state the call started from
    scoreLog,            \* slots passed to score() by that call, in order
    predictedLog,        \* <<slot, positionToMove>> for every ball that call predicted
    physicsLog,          \* slots whose ball ran friction/boundary/collision in that call
    ricochetLog,         \* slots whose ball that call passed to ricochet()
    collideLog,          \* <<i, l, p>> for every collide(billBalls[i], billBalls[l]) of that
                         \* call; p is the position of ball l when collide returned
    launch,              \* the cue ball's speed after the last release, and its run since
    frames,              \* number of update calls that started with a ball in motion
    shots,               \* number of mouseButtonReleased calls so far
    inits                \* number of init calls so far

vars == << billBalls, heap, ballToHit, pockets, isChargingShot, shotChargeProgress,
           destroyCount, status, lastOp, callArgs, prev, scoreLog, predictedLog,
           physicsLog, ricochetLog, collideLog, launch, frames, shots, inits >>

Snapshot == [billBalls |-> billBalls, heap |-> heap, pockets |-> pockets,
             isChargingShot |-> isChargingShot,
             shotChargeProgress |-> shotChargeProgress,
             destroyCount |-> destroyCount]

(* the part of the state one update works on, with empty logs *)
World == [billBalls |-> billBalls, heap |-> heap, destroyCount |-> destroyCount,
          status |-> status, scoreLog |-> << >>, predictedLog |-> << >>,
          physicsLog |-> {}, ricochetLog |-> {}, collideLog |-> << >>]

(* score that destroys the mesh and leaves the ball in its slot *)
scoreKeepsSlot(w, ballIndex) ==
    IF w.billBalls[ballIndex] = NULL
    THEN [w EXCEPT !.status = "crashed"]
    ELSE [w EXCEPT !.destroyCount[w.billBalls[ballIndex]] = @ + 1,
                   !.scoreLog = Append(@, ballIndex)]

(* Game::score; getMesh() on an empty slot is a call through a null pointer *)
score(w, ballIndex) ==
    IF w.billBalls[ballIndex] = NULL
    THEN [w EXCEPT !.status = "crashed"]
    ELSE [w EXCEPT !.destroyCount[w.billBalls[ballIndex]] = @ + 1,
                   !.billBalls[ballIndex] = NULL,
                   !.scoreLog = Append(@, ballIndex)]

inPocket(positionToMove, j) ==
    FLess(distance(positionToMove, pocketsPositions[j]), pocketRadius)

RECURSIVE pocketLoop(_, _, _, _)
(* the loop over the pockets: no exit after a match *)
pocketLoop(w, i, positionToMove, j) ==
    IF j > NumPockets \/ w.status # "running" THEN w
    ELSE pocketLoop(IF inPocket(positionToMove, j) THEN score(w, i) ELSE w,
                    i, positionToMove, j + 1)

(* the speed after the deceleration frictionDeceleration against n *)
decelerated(curBall, n) ==
    setSpeed(curBall, Vector2(FAdd(curBall.speed.x, FMul(FNeg(n.x), frictionDeceleration)),
                              FAdd(curBall.speed.y, FMul(FNeg(n.y), frictionDeceleration))))

(* friction without the stop threshold *)
frictionNoStop(curBall) ==
    IF curBall.speed.x # Zero \/ curBall.speed.y # Zero
    THEN decelerated(curBall, normalizedVector(curBall.speed))
    ELSE curBall

friction(curBall) ==
    IF curBall.speed.x # Zero \/ curBall.speed.y # Zero
    THEN IF FLessEq(FAdd(FMul(curBall.speed.x, curBall.speed.x),
                         FMul(curBall.speed.y, curBall.speed.y)),
                    FMul(FMul(frictionDeceleration, frictionDeceleration), Flt(11, 10)))
         THEN setSpeed(curBall, Vector2(Zero, Zero))
         ELSE decelerated(curBall, normalizedVector(curBall.speed))
    ELSE curBall

outOfTable(p) ==
    \/ FLess(HalfWidth, FAdd(p.x, radius))
    \/ FLess(FSub(p.x, radius), -HalfWidth)
    \/ FLess(HalfHeight, FAdd(p.y, radius))
    \/ FLess(FSub(p.y, radius), -HalfHeight)

(* the boundary step: commit the predicted position, reflect, read back *)
boundary(curBall, positionToMove) ==
    IF outOfTable(positionToMove)
    THEN ricochet(setPosition(curBall, positionToMove))
    ELSE curBall

(* the state of the collision loop after collide on cur and other, which  *)
(* gave pair; p is the value positionToMove takes                          *)
collided(s, i, cur, l, other, pair, p) ==
    [w |-> [s.w EXCEPT !.heap[cur] = pair[1],
                       !.heap[other] = pair[2],
                       !.collideLog = Append(@, << i, l, pair[2].position >>)],
     positionToMove |-> p]

touching(s, l) ==
    /\ s.w.billBalls[l] # NULL
    /\ FLessEq(distance(s.positionToMove, s.w.heap[s.w.billBalls[l]].position),
               FMul(Two, radius))

RECURSIVE collisionLoopNoReset(_, _, _, _)
(* the collision loop without the reset of positionToMove *)
collisionLoopNoReset(s, i, cur, l) ==
    IF l >= NumBalls THEN s
    ELSE IF touching(s, l)
         THEN collisionLoopNoReset(
                 collided(s, i, cur, l, s.w.billBalls[l],
                          collide(s.w.heap[cur], s.w.heap[s.w.billBalls[l]]),
                          s.positionToMove),
                 i, cur, l + 1)
         ELSE collisionLoopNoReset(s, i, cur, l + 1)

RECURSIVE collisionLoop(_, _, _, _)
(* the loop over the slots l > i; s = [w, positionToMove] *)
collisionLoop(s, i, cur, l) ==
    IF l >= NumBalls THEN s
    ELSE IF touching(s, l)
         THEN collisionLoop(
                 collided(s, i, cur, l, s.w.billBalls[l],
                          collide(s.w.heap[cur], s.w.heap[s.w.billBalls[l]]),
                          s.w.heap[cur].position),
                 i, cur, l + 1)
         ELSE collisionLoop(s, i, cur, l + 1)

(* curBall->setPosition(positionToMove) after the collision loop *)
committed(s, cur) == [s.w EXCEPT !.heap[cur] = setPosition(@, s.positionToMove)]

(* the branch !scored: friction, the boundary step, the collision loop;    *)
(* out says that the predicted position passes a wall and bounced is the   *)
(* ball after friction and the boundary step                               *)
physics(w, i, cur, positionToMove, out, bounced) ==
    committed(collisionLoop(
                 [w |-> [w EXCEPT !.heap[cur] = bounced,
                                  !.physicsLog = @ \cup {i},
                                  !.ricochetLog = IF out THEN @ \cup {i} ELSE @],
                  positionToMove |-> IF out THEN bounced.position ELSE positionToMove],
                 i, cur, i + 1),
              cur)

(* the ball cur of slot i with its predicted position *)
moveBall(w, i, cur, positionToMove) ==
    IF \E j \in 1 .. NumPockets : inPocket(positionToMove, j)
    THEN pocketLoop([w EXCEPT !.predictedLog = Append(@, << i, positionToMove >>)],
                    i, positionToMove, 1)
    ELSE physics([w EXCEPT !.predictedLog = Append(@, << i, positionToMove >>)],
                 i, cur, positionToMove, outOfTable(positionToMove),
                 boundary(friction(w.heap[cur]), positionToMove))

(* the body of the loop over the slots, for slot i *)
updateBall(w, i) ==
    IF w.billBalls[i] = NULL \/ w.status # "running" THEN w
    ELSE moveBall(w, i, w.billBalls[i], getNextPosition(w.heap[w.billBalls[i]]))

RECURSIVE updateLoop(_, _)
updateLoop(w, i) ==
    IF i >= NumBalls THEN w ELSE updateLoop(updateBall(w, i), i + 1)

(* the charge step without the upper limit *)
chargeStepUnclamped(progress, dt) == FAdd(progress, FDiv(dt, chargeTime))

(* the charge step of update *)
atMost(sum, limit) == IF FLess(limit, sum) THEN limit ELSE sum

chargeStep(progress, dt) == atMost(FAdd(progress, FDiv(dt, chargeTime)), One)

(* ---------------------------------------------------------------------- *)
(* Calls                                                                   *)
(* ---------------------------------------------------------------------- *)

NoArgs == Vector2(Zero, Zero)

AtRest == [speed |-> Zero, frames |-> 0, clean |-> TRUE]

logsCleared ==
    /\ scoreLog' = << >>
    /\ predictedLog' = << >>
    /\ physicsLog' = {}
    /\ ricochetLog' = {}
    /\ collideLog' = << >>

(* Game::init -> Table::init on a table that holds no pocket mesh *)
GameInit ==
    /\ status = "running"
    /\ \A j \in 1 .. NumPockets : ~pockets[j]
    /\ pockets' = [j \in 1 .. NumPockets |-> TRUE]
    /\ heap' = [i \in Slots |-> BillBall(ballsPositions[i + 1])]
    /\ billBalls' = [i \in Slots |-> i]
    /\ destroyCount' = [i \in Slots |-> 0]
    /\ ballToHit' = 0
    /\ inits' = inits + 1
    /\ lastOp' = "init"
    /\ callArgs' = NoArgs
    /\ prev' = Snapshot
    /\ launch' = AtRest
    /\ logsCleared
    /\ UNCHANGED << isChargingShot, shotChargeProgress, status, frames, shots >>

(* Table::init with the assert compiled out: the table is laid out again *)
GameInitUnchecked ==
    /\ status = "running"
    /\ \E j \in 1 .. NumPockets : pockets[j]
    /\ pockets' = [j \in 1 .. NumPockets |-> TRUE]
    /\ heap' = [i \in Slots |-> BillBall(ballsPositions[i + 1])]
    /\ billBalls' = [i \in Slots |-> i]
    /\ destroyCount' = [i \in Slots |-> 0]
    /\ ballToHit' = 0
    /\ inits' = inits + 1
    /\ lastOp' = "init"
    /\ callArgs' = NoArgs
    /\ prev' = Snapshot
    /\ launch' = AtRest
    /\ logsCleared
    /\ UNCHANGED << isChargingShot, shotChargeProgress, status, frames, shots >>

(* Table::init on a table that still holds a pocket mesh: the assert of    *)
(* the first occupied entry fails; the entries before it were created      *)
GameInitAssert ==
    /\ status = "running"
    /\ \E j \in 1 .. NumPockets : pockets[j]
    /\ LET first == CHOOSE j \in 1 .. NumPockets :
                        pockets[j] /\ \A k \in 1 .. (j - 1) : ~pockets[k]
       IN  pockets' = [j \in 1 .. NumPockets |-> pockets[j] \/ j < first]
    /\ status' = "aborted"
    /\ inits' = inits + 1
    /\ lastOp' = "init"
    /\ callArgs' = NoArgs
    /\ prev' = Snapshot
    /\ logsCleared
    /\ UNCHANGED << billBalls, heap, ballToHit, isChargingShot, shotChargeProgress,
                    destroyCount, launch, frames, shots >>

(* Game::deinit -> Table::deinit *)
GameDeinit ==
    /\ status = "running"
    /\ pockets' = [j \in 1 .. NumPockets |-> FALSE]
    /\ lastOp' = "deinit"
    /\ callArgs' = NoArgs
    /\ prev' = Snapshot
    /\ logsCleared
    /\ UNCHANGED << billBalls, heap, ballToHit, isChargingShot, shotChargeProgress,
                    destroyCount, status, launch, frames, shots, inits >>

(* slots whose ball took part in a collide call or was scored *)
disturbed(w) ==
    { c[1] : c \in { w.collideLog[k] : k \in 1 .. Len(w.collideLog) } }
    \cup { c[2] : c \in { w.collideLog[k] : k \in 1 .. Len(w.collideLog) } }
    \cup { w.scoreLog[k] : k \in 1 .. Len(w.scoreLog) }

moving(b) == b.speed.x # Zero \/ b.speed.y # Zero

(* some ball on the table is in motion *)
tableMoving == \E i \in Slots : billBalls[i] # NULL /\ moving(heap[billBalls[i]])

(* Game::update(dt) for some dt of times.  w is the outcome of the loop    *)
(* over the slots, updateLoop(World, 0); it does not depend on dt.         *)
Update(times, w) ==
    /\ status = "running"
    /\ billBalls' = w.billBalls
    /\ heap' = w.heap
    /\ destroyCount' = w.destroyCount
    /\ status' = w.status
    /\ scoreLog' = w.scoreLog
    /\ predictedLog' = w.predictedLog
    /\ physicsLog' = w.physicsLog
    /\ ricochetLog' = w.ricochetLog
    /\ collideLog' = w.collideLog
    /\ launch' = [launch EXCEPT
                    !.frames = IF \E i \in Slots : /\ billBalls[i] # NULL
                                                    /\ billBalls[i] = ballToHit
                                                    /\ moving(heap[ballToHit])
                               THEN @ + 1 ELSE @,
                    !.clean = @ /\ \A i \in disturbed(w) : billBalls[i] # ballToHit]
    /\ frames' = IF tableMoving THEN frames + 1 ELSE frames
    /\ lastOp' = "update"
    /\ prev' = Snapshot
    /\ \E dt \in times :
          /\ shotChargeProgress' = IF isChargingShot
                                   THEN chargeStep(shotChargeProgress, dt)
                                   ELSE shotChargeProgress
          /\ callArgs' = Vector2(dt, Zero)
    /\ UNCHANGED << ballToHit, pockets, isChargingShot, shots, inits >>

(* Game::mouseButtonPressed(x, y): the point is not read *)
MouseButtonPressed ==
    /\ status = "running"
    /\ isChargingShot' = TRUE
    /\ lastOp' = "pressed"
    /\ callArgs' = NoArgs
    /\ prev' = Snapshot
    /\ logsCleared
    /\ UNCHANGED << billBalls, heap, ballToHit, pockets, shotChargeProgress,
                    destroyCount, status, launch, frames, shots, inits >>

(* the ball after direction(x - position.x, y - position.y) and strike *)
released(b, x, y, progress) ==
    strike(b, Vector2(FSub(x, b.position.x), FSub(y, b.position.y)),
           FMul(progress, strikePower))

(* the length of a ball's velocity *)
speedOf(b) == vectorLength(b.speed)

(* Game::mouseButtonReleased(x, y) with a cue ball designated *)
MouseButtonReleased(x, y) ==
    /\ status = "running"
    /\ ballToHit # NULL
    /\ LET struck == released(heap[ballToHit], x, y, shotChargeProgress)
       IN  /\ heap' = [heap EXCEPT ![ballToHit] = struck]
           /\ launch' = [speed |-> speedOf(struck),
                         frames |-> 0,
                         clean |-> billBalls[0] = ballToHit]
    /\ isChargingShot' = FALSE
    /\ shotChargeProgress' = Zero
    /\ shots' = shots + 1
    /\ lastOp' = "released"
    /\ callArgs' = Vector2(x, y)
    /\ prev' = Snapshot
    /\ logsCleared
    /\ UNCHANGED << billBalls, ballToHit, pockets, destroyCount, status, frames, inits >>

(* Game::mouseButtonReleased before any init: ballToHit is a null pointer *)
MouseButtonReleasedNull ==
    /\ status = "running"
    /\ ballToHit = NULL
    /\ status' = "crashed"
    /\ shots' = shots + 1
    /\ lastOp' = "released"
    /\ callArgs' = NoArgs
    /\ prev' = Snapshot
    /\ logsCleared
    /\ UNCHANGED << billBalls, heap, ballToHit, pockets, isChargingShot,
                    shotChargeProgress, destroyCount, launch, frames, inits >>

(* ---------------------------------------------------------------------- *)
(* Bounds and inputs                                                       *)
(* ---------------------------------------------------------------------- *)

MaxFrames == 7
MaxShots == 2
BreakFrames == 15
FrictionFrames == 10
LifecycleFrames == 2
MaxInits == 2

(* frame times passed to update: 0, 0.5 s and 1 s *)
FrameTimes == { Flt(0, 1), Flt(5, 10), Flt(1, 1) }

(* release points, as offsets from the cue ball's position *)
ClickOffsets == { Vector2(Flt(3, 10), Flt(0, 1)), Vector2(Flt(-3, 10), Flt(4, 10)) }

(* release points on the table *)
ClickPoints == { Vector2(Flt(0, 1), Flt(0, 1)) }

BreakTimes == { Flt(0, 1), Flt(1, 1) }
BreakOffsets == { Vector2(Flt(3, 10), Flt(0, 1)), Vector2(Flt(3, 10), Flt(4, 10)) }

(* soft shots: charges of 0.0031 .. 0.027 *)
SlowCharges == { Flt(31, 10000), Flt(32, 10000), Flt(45, 10000), Flt(61, 10000),
                 Flt(62, 10000), Flt(100, 10000), Flt(150, 10000), Flt(270, 10000) }
SlowOffsets == { Vector2(Flt(3, 10), Flt(0, 1)), Vector2(Flt(-3, 10), Flt(4, 10)),
                 Vector2(Flt(0, 1), Flt(-5, 10)), Vector2(Flt(2, 10), Flt(1, 10)) }

(* ---------------------------------------------------------------------- *)
(* Specifications                                                          *)
(* ---------------------------------------------------------------------- *)

Untouched == [billBalls |-> [i \in Slots |-> NULL],
              heap |-> [i \in Slots |-> BillBall(Vector2(Zero, Zero))],
              pockets |-> [j \in 1 .. NumPockets |-> FALSE],
              isChargingShot |-> FALSE,
              shotChargeProgress |-> Zero,
              destroyCount |-> [i \in Slots |-> 0]]

LaidOut == [billBalls |-> [i \in Slots |-> i],
            heap |-> [i \in Slots |-> BillBall(ballsPositions[i + 1])],
            pockets |-> [j \in 1 .. NumPockets |-> TRUE],
            isChargingShot |-> FALSE,
            shotChargeProgress |-> Zero,
            destroyCount |-> [i \in Slots |-> 0]]

(* the program state is t, reached from u by the call op(args) *)
StateIs(t, u, op, args) ==
    /\ billBalls = t.billBalls
    /\ heap = t.heap
    /\ pockets = t.pockets
    /\ isChargingShot = t.isChargingShot
    /\ shotChargeProgress = t.shotChargeProgress
    /\ destroyCount = t.destroyCount
    /\ status = "running"
    /\ lastOp = op
    /\ callArgs = args
    /\ prev = u
    /\ scoreLog = << >>
    /\ predictedLog = << >>
    /\ physicsLog = {}
    /\ ricochetLog = {}
    /\ collideLog = << >>

(* the process image before Game::init: zero-initialised statics *)
Start ==
    /\ StateIs(Untouched, Untouched, "start", NoArgs)
    /\ ballToHit = NULL
    /\ launch = AtRest
    /\ frames = 0
    /\ shots = 0
    /\ inits = 0

(* the state Game::init leaves: the table laid out, nothing charged *)
Init ==
    /\ StateIs(LaidOut, Untouched, "init", NoArgs)
    /\ ballToHit = 0
    /\ launch = AtRest
    /\ frames = 0
    /\ shots = 0
    /\ inits = 1

Frame ==
    LET w == updateLoop(World, 0)
    IN  /\ tableMoving => frames < MaxFrames
        /\ Update(FrameTimes, w)

ReleaseNear ==
    /\ shots < MaxShots
    /\ ballToHit # NULL
    /\ \E d \in ClickOffsets :
          MouseButtonReleased(FAdd(heap[ballToHit].position.x, d.x),
                              FAdd(heap[ballToHit].position.y, d.y))

ReleaseAt ==
    /\ shots < MaxShots
    /\ \E p \in ClickPoints : MouseButtonReleased(p.x, p.y)

(* play on a laid-out table *)
Next ==
    \/ Frame
    \/ MouseButtonPressed
    \/ ReleaseNear
    \/ ReleaseAt

Spec == Init /\ [][Next]_vars

BreakFrame ==
    LET w == updateLoop(World, 0)
    IN  /\ tableMoving => frames < BreakFrames
        /\ Update(BreakTimes, w)

BreakRelease ==
    /\ shots < MaxShots
    /\ ballToHit # NULL
    /\ \E d \in BreakOffsets :
          MouseButtonReleased(FAdd(heap[ballToHit].position.x, d.x),
                              FAdd(heap[ballToHit].position.y, d.y))

(* full-power shots into the rack, followed for more frames *)
NextBreak ==
    \/ BreakFrame
    \/ MouseButtonPressed
    \/ BreakRelease

SpecBreak == Init /\ [][NextBreak]_vars

(* the laid-out table right after one soft shot: the cue ball was charged  *)
(* to c and released at offset d from its position                         *)
InitFriction ==
    \E c \in SlowCharges, d \in SlowOffsets :
        LET charged == [LaidOut EXCEPT !.isChargingShot = TRUE,
                                       !.shotChargeProgress = c]
            point   == Vector2(FAdd(ballsPositions[1].x, d.x),
                               FAdd(ballsPositions[1].y, d.y))
            struck  == released(LaidOut.heap[0], point.x, point.y, c)
        IN  /\ StateIs([LaidOut EXCEPT !.heap[0] = struck], charged, "released", point)
            /\ ballToHit = 0
            /\ launch = [speed |-> speedOf(struck), frames |-> 0, clean |-> TRUE]
            /\ frames = 0
            /\ shots = 1
            /\ inits = 1

SlowFrame ==
    LET w == updateLoop(World, 0)
    IN  /\ tableMoving => frames < FrictionFrames
        /\ Update(FrameTimes, w)

(* a soft shot followed until the ball stops *)
NextFriction ==
    \/ SlowFrame
    \/ MouseButtonPressed

SpecFriction == InitFriction /\ [][NextFriction]_vars

LifecycleFrame ==
    LET w == updateLoop(World, 0)
    IN  /\ tableMoving => frames < LifecycleFrames
        /\ Update(FrameTimes, w)

(* the session lifecycle around a short game *)
NextLifecycle ==
    \/ (inits < MaxInits /\ GameInit)
    \/ (inits < MaxInits /\ GameInitAssert)
    \/ GameDeinit
    \/ LifecycleFrame
    \/ MouseButtonPressed
    \/ ReleaseNear
    \/ (shots < MaxShots /\ MouseButtonReleasedNull)

SpecLifecycle == Start /\ [][NextLifecycle]_vars

(* ---------------------------------------------------------------------- *)
(* PhysicEvents::ricochet and PhysicEvents::collide on their own           *)
(* ---------------------------------------------------------------------- *)

(* positions of the first ball: inside, touching a wall, through one wall, *)
(* through two walls                                                       *)
ProbeXs == { Flt(0, 1), Flt(72, 10), Flt(721, 100), Flt(755, 100), Flt(-721, 100),
             Flt(-78, 10) }
ProbeYs == { Flt(0, 1), Flt(37, 10), Flt(371, 100), Flt(-371, 100), Flt(-404, 100) }
ProbeSpeeds == { Vector2(Flt(1, 1), Flt(0, 1)), Vector2(Flt(-6, 10), Flt(8, 10)),
                 Vector2(Flt(3, 100), Flt(-7, 100)) }

(* the second ball: where it lies from the first, and its velocity *)
ProbeOffsets == { Vector2(Flt(5, 10), Flt(0, 1)), Vector2(Flt(3, 10), Flt(4, 10)),
                  Vector2(Flt(-2, 10), Flt(5, 10)), Vector2(Flt(0, 1), Flt(-6, 10)) }
ProbeSpeeds2 == { Vector2(Flt(0, 1), Flt(0, 1)), Vector2(Flt(-5, 10), Flt(25, 100)),
                  Vector2(Flt(1234, 10000), Flt(4321, 10000)) }

InitPure ==
    \E x \in ProbeXs, y \in ProbeYs, v \in ProbeSpeeds,
       o \in ProbeOffsets, u \in ProbeSpeeds2 :
        LET t == [LaidOut EXCEPT
                    !.heap[0] = [position |-> Vector2(x, y), speed |-> v],
                    !.heap[1] = [position |-> Vector2(FAdd(x, o.x), FAdd(y, o.y)),
                                 speed |-> u]]
        IN  /\ StateIs(t, t, "probe", NoArgs)
            /\ ballToHit = 0
            /\ launch = AtRest
            /\ frames = 0
            /\ shots = 0
            /\ inits = 1

probeStep(op, newHeap) ==
    /\ lastOp = "probe"
    /\ heap' = newHeap
    /\ lastOp' = op
    /\ callArgs' = NoArgs
    /\ prev' = Snapshot
    /\ logsCleared
    /\ UNCHANGED << billBalls, ballToHit, pockets, isChargingShot, shotChargeProgress,
                    destroyCount, status, launch, frames, shots, inits >>

(* PhysicEvents::ricochet(billBalls[0]) *)
CallRicochet == probeStep("ricochet", [heap EXCEPT ![0] = ricochet(heap[0])])

(* PhysicEvents::collide(billBalls[0], billBalls[1]) *)
CallCollide ==
    LET pair == collide(heap[0], heap[1])
    IN  probeStep("collide", [heap EXCEPT ![0] = pair[1], ![1] = pair[2]])

NextPure ==
    \/ CallRicochet
    \/ CallCollide

SpecPure == InitPure /\ [][NextPure]_vars

(* ---------------------------------------------------------------------- *)
(* Properties                                                              *)
(* ---------------------------------------------------------------------- *)

(* the allowance for float rounding in the relations below: 0.000001 *)
Epsilon == Flt(1, 1000000)

Dot(a, b) == FAdd(FMul(a.x, b.x), FMul(a.y, b.y))
Cross(a, b) == FSub(FMul(a.x, b.y), FMul(a.y, b.x))
NormSq(a) == FAdd(FMul(a.x, a.x), FMul(a.y, a.y))
Norm(a) == FSqrt(NormSq(a))
Norm1(a) == FAdd(Abs(a.x), Abs(a.y))
Diff(a, b) == Vector2(FSub(a.x, b.x), FSub(a.y, b.y))

(* the coordinate c of a ball centre, mirrored back across the wall at     *)
(* +-half that its extent has passed by twice the depth                    *)
Mirrored(c, half) ==
    IF FAdd(c, radius) > half
    THEN FSub(c, FMul(FSub(FAdd(c, radius), half), Two))
    ELSE IF FSub(c, radius) < -half
    THEN FAdd(c, FMul(FAdd(FSub(-half, c), radius), Two))
    ELSE c

Outside(c, half) == FAdd(c, radius) > half \/ FSub(c, radius) < -half

(* C9: ricochet treats the two axes independently.  A coordinate whose     *)
(* extent is outside the table is mirrored back across its wall by twice   *)
(* the penetration depth and the velocity component of that axis is        *)
(* negated, on both axes when both are outside (a corner); a coordinate    *)
(* inside keeps its value and its velocity component.                      *)
RicochetPerAxis ==
    lastOp = "ricochet" =>
        LET before == prev.heap[0]
            after  == heap[0]
        IN  /\ after.position.x = Mirrored(before.position.x, HalfWidth)
            /\ after.position.y = Mirrored(before.position.y, HalfHeight)
            /\ after.speed.x = IF Outside(before.position.x, HalfWidth)
                               THEN -before.speed.x ELSE before.speed.x
            /\ after.speed.y = IF Outside(before.position.y, HalfHeight)
                               THEN -before.speed.y ELSE before.speed.y

(* C6: collide leaves both positions unchanged and the sum of the two      *)
(* velocities unchanged; along the guide vector each ball ends with the    *)
(* component the other had, and across it each keeps its own.  The         *)
(* velocity relations hold to within float rounding: Epsilon times the     *)
(* size of the velocities involved.                                        *)
CollisionSymmetry ==
    lastOp = "collide" =>
        LET a  == prev.heap[0]
            b  == prev.heap[1]
            a2 == heap[0]
            b2 == heap[1]
            g  == Diff(b.position, a.position)
            tolerance == FMul(Epsilon, FAdd(Norm1(a.speed), Norm1(b.speed)))
            along == FMul(tolerance, Norm1(g))
        IN  /\ a2.position = a.position
            /\ b2.position = b.position
            /\ Abs(FSub(FAdd(a2.speed.x, b2.speed.x), FAdd(a.speed.x, b.speed.x)))
                  <= tolerance
            /\ Abs(FSub(FAdd(a2.speed.y, b2.speed.y), FAdd(a.speed.y, b.speed.y)))
                  <= tolerance
            /\ Abs(FSub(Dot(a2.speed, g), Dot(b.speed, g))) <= along
            /\ Abs(FSub(Dot(b2.speed, g), Dot(a.speed, g))) <= along
            /\ Abs(FSub(Cross(a2.speed, g), Cross(a.speed, g))) <= along
            /\ Abs(FSub(Cross(b2.speed, g), Cross(b.speed, g))) <= along

(* a head-on hit on a ball at rest 0.5 ahead: the whole velocity passes on *)
CollisionSymmetryWitness ==
    /\ lastOp = "collide"
    /\ prev.heap[0].position = Vector2(Zero, Zero)
    /\ prev.heap[1].position = Vector2(Half, Zero)
    /\ prev.heap[0].speed = Vector2(One, Zero)
    /\ prev.heap[1].speed = Vector2(Zero, Zero)
    /\ heap[0].speed = Vector2(Zero, Zero)
    /\ heap[1].speed = Vector2(One, Zero)

Live == { i \in Slots : billBalls[i] # NULL }

(* the extent of a ball at p is inside the table, to within Epsilon *)
InsideTable(p) ==
    /\ FAdd(Abs(p.x), radius) <= FAdd(HalfWidth, Epsilon)
    /\ FAdd(Abs(p.y), radius) <= FAdd(HalfHeight, Epsilon)

(* C1: after every update, every ball still in a slot lies with its whole  *)
(* extent inside the table rectangle (to within float rounding).           *)
BoundaryContainment ==
    lastOp = "update" => \A i \in Live : InsideTable(heap[billBalls[i]].position)

(* the slots of the balls the call collided, in either role *)
Collided ==
    { collideLog[k][1] : k \in 1 .. Len(collideLog) }
    \cup { collideLog[k][2] : k \in 1 .. Len(collideLog) }

Lower == { collideLog[k][1] : k \in 1 .. Len(collideLog) }
Partners == { collideLog[k][2] : k \in 1 .. Len(collideLog) }
Scored == { scoreLog[k] : k \in 1 .. Len(scoreLog) }
Predicted == { predictedLog[k] : k \in 1 .. Len(predictedLog) }

(* p is at a distance below pocketRadius + margin from some pocket centre *)
NearPocket(p, margin) ==
    \E j \in 1 .. NumPockets :
        Norm(Diff(p, pocketsPositions[j])) < FAdd(pocketRadius, margin)

(* C2: a ball whose predicted position is nearer than pocketRadius to a    *)
(* pocket is removed in that update and only such a ball is (a position    *)
(* within Epsilon of the circle may go either way): its slot is empty      *)
(* afterwards, its mesh has been destroyed exactly once, and no friction,  *)
(* boundary or collision step ran for it.  A slot that was empty stays     *)
(* empty and appears in no step of the update.  Over the whole run the     *)
(* mesh of a ball has been destroyed once if its slot is empty and never   *)
(* otherwise.                                                              *)
PocketCapture ==
    /\ status = "running"
    /\ \A i \in Slots : destroyCount[i] = IF billBalls[i] = NULL THEN 1 ELSE 0
    /\ lastOp = "update" =>
          /\ \A e \in Predicted :
                /\ prev.billBalls[e[1]] # NULL
                /\ e[1] \notin Partners =>
                      e[2] = getNextPosition(prev.heap[prev.billBalls[e[1]]])
                /\ NearPocket(e[2], -Epsilon) => billBalls[e[1]] = NULL
                /\ ~NearPocket(e[2], Epsilon) => billBalls[e[1]] # NULL
                /\ IF billBalls[e[1]] = NULL
                   THEN /\ e[1] \in Scored
                        /\ e[1] \notin physicsLog \cup ricochetLog \cup Lower
                   ELSE /\ e[1] \notin Scored
                        /\ e[1] \in physicsLog
          /\ \A i \in Slots :
                /\ prev.billBalls[i] # NULL => \E e \in Predicted : e[1] = i
                /\ prev.billBalls[i] = NULL =>
                      /\ billBalls[i] = NULL
                      /\ i \notin physicsLog \cup ricochetLog \cup Collided \cup Scored
                      /\ \A e \in Predicted : e[1] # i
          /\ Len(scoreLog) = Cardinality(Scored)

(* an update that runs after a ball was captured and leaves its slot alone *)
PocketCaptureWitness ==
    /\ lastOp = "update"
    /\ \E i \in Slots : prev.billBalls[i] = NULL /\ billBalls[i] = NULL
                        /\ destroyCount[i] = 1
    /\ physicsLog # {}

(* C3: the charge stays within [0, 1]; an update while charging adds       *)
(* dt / chargeTime and stops at 1, an update while not charging leaves it; *)
(* after a release the charge is 0 and charging is off.                    *)
ChargeClamp ==
    /\ Zero <= shotChargeProgress
    /\ shotChargeProgress <= One
    /\ (lastOp = "released" /\ status = "running") =>
          shotChargeProgress = Zero /\ ~isChargingShot
    /\ lastOp = "update" =>
          IF prev.isChargingShot
          THEN LET sum == FAdd(prev.shotChargeProgress, FDiv(callArgs.x, chargeTime))
               IN  \/ sum <= One /\ shotChargeProgress = sum
                   \/ sum > One /\ shotChargeProgress = One
          ELSE shotChargeProgress = prev.shotChargeProgress

(* an update that would have charged past 1 *)
ChargeClampWitness ==
    /\ lastOp = "update"
    /\ prev.isChargingShot
    /\ prev.shotChargeProgress > Zero
    /\ FAdd(prev.shotChargeProgress, FDiv(callArgs.x, chargeTime)) > One
    /\ shotChargeProgress = One

(* C4: the ball a release strikes is the ball held in slot 0.              *)
CueBallIsSlotZero ==
    ballToHit # NULL => billBalls[0] = ballToHit

(* C7: a release at a point other than the cue ball's position adds to the *)
(* cue ball's velocity an impulse of size charge * strikePower pointing    *)
(* from the ball to the release point (to within float rounding: Epsilon   *)
(* times the size of the velocities involved); every position and every    *)
(* other ball's velocity stay as they were, the charge is 0 and charging   *)
(* is off.  With the cue ball at (-4.5, 0), charge 1 and release at (0, 0) *)
(* the velocity grows by 1 in x and keeps its y.                           *)
StrikeOnRelease ==
    (lastOp = "released" /\ status = "running"
        /\ callArgs # prev.heap[ballToHit].position) =>
        LET before == prev.heap[ballToHit]
            after  == heap[ballToHit]
            d      == Diff(callArgs, before.position)
            power  == FMul(prev.shotChargeProgress, strikePower)
            impulse == Diff(after.speed, before.speed)
            tolerance == FMul(Epsilon, FAdd(One, Norm1(before.speed)))
        IN  /\ Abs(FSub(Norm(impulse), power)) <= tolerance
            /\ Abs(Cross(impulse, d)) <= FMul(tolerance, Norm1(d))
            /\ Dot(impulse, d) >= Zero
            /\ after.position = before.position
            /\ \A i \in Slots : i # ballToHit => heap[i] = prev.heap[i]
            /\ billBalls = prev.billBalls
            /\ ~isChargingShot
            /\ shotChargeProgress = Zero
            /\ (before.position = Vector2(Flt(-45, 10), Zero)
                  /\ callArgs = Vector2(Zero, Zero)
                  /\ prev.shotChargeProgress = One)
                  => after.speed = Vector2(FAdd(before.speed.x, One), before.speed.y)

(* a half-charged release on a cue ball that is already moving *)
StrikeOnReleaseWitness ==
    /\ lastOp = "released"
    /\ status = "running"
    /\ prev.shotChargeProgress = Half
    /\ moving(prev.heap[ballToHit])
    /\ billBalls[0] = ballToHit
    /\ heap[ballToHit].speed # prev.heap[ballToHit].speed
    /\ Cross(heap[ballToHit].speed, prev.heap[ballToHit].speed) # Zero

(* C5: a ball that stays on the table through an update and takes part in *)
(* no collision loses speed: at rest it stays at rest; with speed squared  *)
(* <= 1.1 * frictionDeceleration^2 its velocity becomes (0, 0); above that *)
(* its speed drops by frictionDeceleration (to within Epsilon) along its   *)
(* own direction, no component grows, and none changes sign unless a wall  *)
(* reflected it.  A cue ball that has run undisturbed since its release    *)
(* has run at most launchSpeed / frictionDeceleration + 1 updates in       *)
(* motion, and at most launchSpeed / frictionDeceleration while it still   *)
(* moves (the update that stops it is yet to come).                        *)
FrictionMonotonicity ==
    /\ lastOp = "update" =>
          \A i \in Slots :
             (prev.billBalls[i] # NULL /\ billBalls[i] # NULL /\ i \notin Collided) =>
                LET v == prev.heap[prev.billBalls[i]].speed
                    u == heap[billBalls[i]].speed
                IN  IF v = Vector2(Zero, Zero) THEN u = Vector2(Zero, Zero)
                    ELSE IF NormSq(v) <= FMul(FMul(frictionDeceleration,
                                                   frictionDeceleration), Flt(11, 10))
                    THEN u = Vector2(Zero, Zero)
                    ELSE /\ Norm(u) < Norm(v)
                         /\ Abs(u.x) <= Abs(v.x)
                         /\ Abs(u.y) <= Abs(v.y)
                         /\ i \notin ricochetLog =>
                               /\ (v.x >= Zero) => (u.x >= Zero)
                               /\ (v.x <= Zero) => (u.x <= Zero)
                               /\ (v.y >= Zero) => (u.y >= Zero)
                               /\ (v.y <= Zero) => (u.y <= Zero)
                         /\ Abs(FSub(FMul(Abs(u.x), Abs(v.y)), FMul(Abs(u.y), Abs(v.x))))
                               <= FMul(Epsilon, NormSq(v))
                         /\ Abs(FSub(FSub(Norm(v), Norm(u)), frictionDeceleration))
                               <= Epsilon
    /\ (launch.clean /\ billBalls[0] = ballToHit /\ ballToHit # NULL) =>
          /\ FMul(Flt(launch.frames, 1), frictionDeceleration)
                <= FAdd(launch.speed, frictionDeceleration)
          /\ moving(heap[ballToHit]) =>
                FMul(Flt(launch.frames, 1), frictionDeceleration) <= launch.speed

(* the cue ball has come to rest after a run of several updates, the last  *)
(* of which took it from below the stop threshold to (0, 0)                *)
FrictionMonotonicityWitness ==
    /\ lastOp = "update"
    /\ launch.clean
    /\ launch.frames >= 3
    /\ billBalls[0] = ballToHit
    /\ moving(prev.heap[ballToHit])
    /\ ~moving(heap[ballToHit])

(* C8: an init on a table that still holds pocket meshes stops at its      *)
(* assertion and creates nothing; an init on a table without pocket meshes *)
(* (fresh, or after deinit) leaves all 6 pockets created, all 7 slots      *)
(* holding balls at their layout positions with zero velocity, and slot    *)
(* 0's ball designated as the cue ball.                                    *)
InitDeinitPairing ==
    lastOp = "init" =>
        IF \E j \in 1 .. NumPockets : prev.pockets[j]
        THEN /\ status = "aborted"
             /\ pockets = prev.pockets
             /\ billBalls = prev.billBalls
             /\ heap = prev.heap
        ELSE /\ status = "running"
             /\ \A j \in 1 .. NumPockets : pockets[j]
             /\ \A i \in Slots :
                   /\ billBalls[i] # NULL
                   /\ heap[billBalls[i]] = BillBall(ballsPositions[i + 1])
             /\ \A i, k \in Slots : i # k => billBalls[i] # billBalls[k]
             /\ ballToHit # NULL
             /\ ballToHit = billBalls[0]

(* a second init without a deinit since the first *)
InitDeinitPairingWitness ==
    /\ lastOp = "init"
    /\ inits = 2
    /\ \A j \in 1 .. NumPockets : prev.pockets[j]
    /\ status = "aborted"

(* the position predicted for slot i in the last update *)
PredictedOf(i) == (CHOOSE e \in Predicted : e[1] = i)[2]

(* where the boundary step leaves a ball predicted at p *)
Reflected(p) == ricochet([position |-> p, speed |-> Vector2(Zero, Zero)]).position

(* the collide calls of one update are made in ascending order of (i, l),  *)
(* each pair at most once, with i < l, on balls that were in their slots   *)
(* when the update began; the first ball is not captured in that update    *)
(* and the second ball is where it was when the update began               *)
CollideCallsOrdered ==
    /\ \A k \in 1 .. Len(collideLog) :
          LET i == collideLog[k][1]
              l == collideLog[k][2]
          IN  /\ i < l
              /\ prev.billBalls[i] # NULL
              /\ prev.billBalls[l] # NULL
              /\ i \notin Scored
              /\ \A c \in Scored : c < i => c # l
              /\ collideLog[k][3] = prev.heap[prev.billBalls[l]].position
    /\ \A k, m \in 1 .. Len(collideLog) :
          k < m => \/ collideLog[k][1] < collideLog[m][1]
                   \/ /\ collideLog[k][1] = collideLog[m][1]
                      /\ collideLog[k][2] < collideLog[m][2]

(* C10, as stated: in one update collide is applied in ascending slot      *)
(* order, to each pair at most once with the lower slot first, never to a  *)
(* ball captured earlier in the update, without moving the partner; and a  *)
(* ball that collides as the lower member ends the update where it was     *)
(* when the update began, not advanced by its velocity.                    *)
CollisionOrderingAsStated ==
    lastOp = "update" =>
        /\ CollideCallsOrdered
        /\ \A i \in Lower :
              heap[billBalls[i]].position = prev.heap[prev.billBalls[i]].position

(* C10, amended: as above, except that the lower member ends the update    *)
(* where it was when the update began only if the boundary step did not    *)
(* run for it in that update; if it did, the ball ends at the reflection   *)
(* of its predicted position.                                              *)
CollisionOrdering ==
    lastOp = "update" =>
        /\ CollideCallsOrdered
        /\ \A i \in Lower :
              heap[billBalls[i]].position =
                 IF i \in ricochetLog THEN Reflected(PredictedOf(i))
                 ELSE prev.heap[prev.billBalls[i]].position

(* an update in which a ball is reflected by a wall and then collides as   *)
(* the lower member of a pair                                              *)
CollisionOrderingWitness ==
    /\ lastOp = "update"
    /\ \E i \in Lower :
          /\ i \in ricochetLog
          /\ heap[billBalls[i]].position # prev.heap[prev.billBalls[i]].position

====
